---- MODULE Spec2Model ----
(***************************************************************************)
(* Model of the simulated broker of sahilpurav/backtester                  *)
(* (src/broker/backtest.py, class BacktestBroker).                         *)
(*                                                                         *)
(* Numbers.  Python floats are modelled as exact rationals:                *)
(*   - prices and transaction values are whole currency units;            *)
(*   - cash, transaction_cost, total_cost, net_proceeds and cash_after are *)
(*     integers counting 1/Scale of a currency unit;                       *)
(*   - transaction_cost_pct is the numerator of a rate over Scale          *)
(*     (119 stands for 119/100000 = 0.001190);                             *)
(*   - a holding's buy_price is a reduced fraction <<num, den>> of whole   *)
(*     currency units (the result of total_value / total_quantity).        *)
(*                                                                         *)
(* Objects.  A holding is a Python dict, a mutable object with identity.   *)
(* heap maps object ids to dict values; self.holdings and the list that    *)
(* get_holdings() hands to its caller are sequences of ids, so that two    *)
(* lists can hold the same dict.                                           *)
(***************************************************************************)
EXTENDS Integers, Sequences, FiniteSets, TLC

VARIABLES
    initial_capital,        \* self.initial_capital                (1/Scale units)
    cash,                   \* self.cash                           (1/Scale units)
    transaction_cost_pct,   \* self.transaction_cost_pct           (numerator over Scale)
    holdings,               \* self.holdings: sequence of ids of holding dicts
    transactions,           \* self.transactions: sequence of transaction records
    current_date,           \* self.current_date
    heap,                   \* id -> value of the dict with that id (NoObj if none)
    returned,               \* the list a caller got from get_holdings(): sequence of ids
    call,                   \* the last call made: its name and arguments
    ret,                    \* what the last call returned
    equity,                 \* BacktestResult.equity: the values of the curve, one per day
    benchmark,              \* BacktestResult.benchmark: a curve or None
    rebalance_log,          \* BacktestResult.rebalance_log: rows (Date, Symbol) or None
    cache_dir,              \* the files of the cache directory: name -> records
    io                      \* cache reads, requests and cache writes of the last call

vars == <<initial_capital, cash, transaction_cost_pct, holdings, transactions,
          current_date, heap, returned, call, ret,
          equity, benchmark, rebalance_log, cache_dir, io>>

analyzer == <<equity, benchmark, rebalance_log>>

fetcher == <<cache_dir, io>>

broker == <<initial_capital, cash, transaction_cost_pct, holdings, transactions,
            current_date>>

-----------------------------------------------------------------------------
(* Bounds and input sets *)

Scale == 100000
DefaultCostPct == 119

MaxLog == 3        \* orders are placed while the log has fewer records than this
MaxReturned == 2   \* longest list a caller builds from a get_holdings() result

Symbols == {"A", "B"}

\* ids for every dict that can be alive at once
Ids == 1..(Cardinality(Symbols) + MaxReturned)
NoId == 0          \* Python None where a dict is expected
None == -1         \* Python None where a number is expected
NoObj == [symbol |-> "", quantity |-> 0, buy_price |-> <<0, 1>>]

Quantities == {-1, 0, 5, 10}
Prices == {100, 110}
TransactionTypes == {"BUY", "SELL", "HOLD"}
Dates == {20200101}
Capitals == {0, 1000 * Scale, 2000 * Scale}
\* capitals handed to reset: those of construction and one no broker starts with
ResetCapitals == Capitals \cup {500 * Scale}
CostPcts == {0, DefaultCostPct, Scale}

\* price_data of get_portfolio_value: keys, dates and Close prices
Suffix == ".NS"
ValuationDates == {20200101, 20200102}
Close(key, date) ==
    (IF key = "A" THEN 120 ELSE IF key = "A" \o Suffix THEN 125 ELSE 90)
    + (date - 20200101)
\* a price DataFrame of key with a row for each of the dates
Rows(key, dates) == [d \in dates |-> Close(key, d)]
PriceDatas ==
    { [k \in {} |-> Rows(k, {})],
      [k \in {"A"} |-> Rows(k, {20200101})],
      [k \in {"A", "A" \o Suffix, "B" \o Suffix} |->
          Rows(k, IF k = "A" THEN {20200102} ELSE {20200101})],
      [k \in {"A" \o Suffix, "B" \o Suffix} |->
          Rows(k, IF k = "B" \o Suffix THEN {20200102} ELSE {20200101})],
      [k \in {"A", "B", "B" \o Suffix} |-> Rows(k, ValuationDates)] }

\* rows of a rebalance log
MaxRows == 4       \* longest rebalance log
RebalanceDates == {1, 2, 3, 4}
RebalanceSymbols == {"A", "B", "C"}
RebalanceRows == [Date : RebalanceDates, Symbol : RebalanceSymbols]
RebalanceLogs ==
    {[is_none |-> TRUE, rows |-> <<>>]}
    \cup {[is_none |-> FALSE, rows |-> r] :
             r \in UNION {[1..n -> RebalanceRows] : n \in 0..MaxRows}}

\* curves: one value per day, the index of the i-th value being day i
MaxCurve == 3      \* longest equity or benchmark curve
CurveValues == {1, 2, 4}
Curves(MinLen) == UNION {[1..n -> CurveValues] : n \in MinLen..MaxCurve}
\* risk-free rates, as fractions
RiskFreeRates == {<<0, 1>>, <<5, 100>>, <<252, 1>>}
\* 365.25, in hundredths of a day
YearDays100 == 36525
TradingDays == 252

CallerQuantities == {20}
CallerPrices == {1}

-----------------------------------------------------------------------------
(* Helpers *)

Range(s) == {s[i] : i \in 1..Len(s)}

RECURSIVE GCD(_, _)
GCD(a, b) == IF b = 0 THEN a ELSE GCD(b, a % b)

\* the float n/d, as a reduced fraction (n >= 0, d > 0)
Frac(n, d) == LET g == GCD(n, d) IN <<n \div g, d \div g>>

\* sum of two fractions, reduced
FracAdd(a, b) ==
    LET l == (a[2] * b[2]) \div GCD(a[2], b[2])
    IN Frac(a[1] * (l \div a[2]) + b[1] * (l \div b[2]), l)

\* s without its i-th element
RemoveAt(s, i) == [j \in 1..(Len(s) - 1) |-> IF j < i THEN s[j] ELSE s[j + 1]]

\* dicts no list refers to any more are gone
Collect(h, hold, retd) ==
    [i \in Ids |-> IF i \in Range(hold) \cup Range(retd) THEN h[i] ELSE NoObj]

\* an id no list refers to
FreshId == CHOOSE i \in Ids : /\ i \notin Range(holdings) \cup Range(returned)
                              /\ \A j \in Ids : j < i => j \in Range(holdings) \cup Range(returned)

\* variant: the first holding is taken, whatever its symbol
FindHolding_First(symbol) == IF holdings = <<>> THEN NoId ELSE holdings[1]

\* next((h for h in self.holdings if h["symbol"] == symbol), None)
FindHolding(symbol) ==
    LET hits == {i \in 1..Len(holdings) : heap[holdings[i]].symbol = symbol}
    IN IF hits = {} THEN NoId
       ELSE holdings[CHOOSE i \in hits : \A j \in hits : i <= j]

\* self.holdings.remove(holding): drops the first element equal to the dict
ListRemove(hold, h, id) ==
    LET hits == {i \in 1..Len(hold) : h[hold[i]] = h[id]}
    IN RemoveAt(hold, CHOOSE i \in hits : \A j \in hits : i <= j)

NoneRet == [kind |-> "None"]
OrderId(symbol, date, transaction_type) ==
    [kind |-> "order_id", symbol |-> symbol, date |-> date,
     transaction_type |-> transaction_type]

Transaction(date, symbol, action, quantity, price, transaction_cost, cash_after) ==
    [date |-> date, symbol |-> symbol, action |-> action, quantity |-> quantity,
     price |-> price, transaction_cost |-> transaction_cost,
     cash_after |-> cash_after]

-----------------------------------------------------------------------------
(* Conditions and computations of place_market_order *)

\* variant: only negative quantities are refused
QuantityRejected_OnlyNegative(quantity) == quantity < 0

\* if quantity <= 0
QuantityRejected(quantity) == quantity <= 0

\* variant: the cost is left out of the total
TotalCost_WithoutCost(transaction_value, transaction_cost) ==
    transaction_value * Scale

\* total_cost = transaction_value + transaction_cost
TotalCost(transaction_value, transaction_cost) ==
    transaction_value * Scale + transaction_cost

\* variant: the check forgets the transaction cost
InsufficientFunds_IgnoresCost(transaction_value, transaction_cost) ==
    transaction_value * Scale > cash

\* variant: the check compares with the initial capital instead of the cash
InsufficientFunds_AgainstCapital(transaction_value, transaction_cost) ==
    TotalCost(transaction_value, transaction_cost) > initial_capital

\* if total_cost > self.cash
InsufficientFunds(transaction_value, transaction_cost) ==
    TotalCost(transaction_value, transaction_cost) > cash

\* variant: the old cost basis is the buy price, not quantity times buy price
UpdatedHolding_UnweightedBasis(existing_holding, quantity, transaction_value) ==
    LET total_quantity == existing_holding.quantity + quantity
        total_value_num == existing_holding.buy_price[1]
                           + transaction_value * existing_holding.buy_price[2]
        total_value_den == existing_holding.buy_price[2]
    IN [existing_holding EXCEPT
          !.buy_price = Frac(total_value_num, total_value_den * total_quantity),
          !.quantity = total_quantity]

\* the existing holding after the averaging of a BUY
UpdatedHolding(existing_holding, quantity, transaction_value) ==
    LET total_quantity == existing_holding.quantity + quantity
        \* total_value = quantity * buy_price + transaction_value, over den
        total_value_num == existing_holding.quantity * existing_holding.buy_price[1]
                           + transaction_value * existing_holding.buy_price[2]
        total_value_den == existing_holding.buy_price[2]
    IN [existing_holding EXCEPT
          !.buy_price = Frac(total_value_num, total_value_den * total_quantity),
          !.quantity = total_quantity]

\* if not holding or holding["quantity"] < quantity
InsufficientShares(holding, quantity) ==
    holding = NoId \/ heap[holding].quantity < quantity

\* variant: the cost is added to the proceeds
NetProceeds_AddsCost(transaction_value, transaction_cost) ==
    transaction_value * Scale + transaction_cost

\* net_proceeds = transaction_value - transaction_cost
NetProceeds(transaction_value, transaction_cost) ==
    transaction_value * Scale - transaction_cost

\* variant: a holding sold out stays in the list
HoldingsAfterSell_NeverRemoves(hold, h, holding) == hold

\* if holding["quantity"] == 0: self.holdings.remove(holding)
HoldingsAfterSell(hold, h, holding) ==
    IF h[holding].quantity = 0 THEN ListRemove(hold, h, holding) ELSE hold

-----------------------------------------------------------------------------
(* Operations *)

\* no BacktestResult has been constructed
NoAnalyzer ==
    /\ equity = <<>>
    /\ benchmark = [is_none |-> TRUE, values |-> <<>>]
    /\ rebalance_log = [is_none |-> TRUE, rows |-> <<>>]

\* get_universe_symbols has not been called and nothing is cached
\* an empty cache directory
NoFiles == [name \in {} |-> <<>>]

NoFetcher ==
    /\ cache_dir = NoFiles
    /\ io = <<>>

Init ==
    /\ NoAnalyzer
    /\ NoFetcher
    /\ initial_capital \in Capitals
    /\ cash = initial_capital
    /\ transaction_cost_pct \in CostPcts
    /\ holdings = <<>>
    /\ transactions = <<>>
    /\ current_date = None
    /\ heap = [i \in Ids |-> NoObj]
    /\ returned = <<>>
    /\ call = [op |-> "__init__"]
    /\ ret = NoneRet

\* return None, nothing touched
Reject ==
    /\ ret' = NoneRet
    /\ UNCHANGED <<broker, heap, returned, analyzer, fetcher>>

Buy(symbol, quantity, price, date, transaction_value, transaction_cost) ==
    IF InsufficientFunds(transaction_value, transaction_cost)
    THEN Reject
    ELSE
      LET existing_holding == FindHolding(symbol) IN
      /\ cash' = cash - TotalCost(transaction_value, transaction_cost)
      /\ IF existing_holding # NoId
         THEN /\ heap' = [heap EXCEPT ![existing_holding] =
                             UpdatedHolding(@, quantity, transaction_value)]
              /\ holdings' = holdings
         ELSE /\ heap' = [heap EXCEPT ![FreshId] =
                             [symbol |-> symbol, quantity |-> quantity,
                              buy_price |-> <<price, 1>>]]
              /\ holdings' = Append(holdings, FreshId)
      /\ transactions' = Append(transactions,
             Transaction(date, symbol, "BUY", quantity, price,
                         transaction_cost, cash'))
      /\ ret' = OrderId(symbol, date, "BUY")
      /\ UNCHANGED <<initial_capital, transaction_cost_pct, current_date, returned, analyzer, fetcher>>

Sell(symbol, quantity, price, date, transaction_value, transaction_cost) ==
    LET holding == FindHolding(symbol) IN
    IF InsufficientShares(holding, quantity)
    THEN Reject
    ELSE
      LET sold == [heap EXCEPT ![holding].quantity = @ - quantity] IN
      /\ holdings' = HoldingsAfterSell(holdings, sold, holding)
      /\ heap' = Collect(sold, holdings', returned)
      /\ cash' = cash + NetProceeds(transaction_value, transaction_cost)
      /\ transactions' = Append(transactions,
             Transaction(date, symbol, "SELL", quantity, price,
                         transaction_cost, cash'))
      /\ ret' = OrderId(symbol, date, "SELL")
      /\ UNCHANGED <<initial_capital, transaction_cost_pct, current_date, returned, analyzer, fetcher>>

place_market_order(symbol, quantity, transaction_type, price, date) ==
    /\ Len(transactions) < MaxLog
    /\ call' = [op |-> "place_market_order", symbol |-> symbol,
                quantity |-> quantity, transaction_type |-> transaction_type,
                price |-> price, date |-> date]
    /\ IF QuantityRejected(quantity)
       THEN Reject
       ELSE
         LET transaction_value == quantity * price
             transaction_cost == transaction_value * transaction_cost_pct
         IN IF transaction_type = "BUY"
            THEN Buy(symbol, quantity, price, date, transaction_value, transaction_cost)
            ELSE IF transaction_type = "SELL"
            THEN Sell(symbol, quantity, price, date, transaction_value, transaction_cost)
            ELSE \* neither branch runs; the order id is returned all the same
                 /\ ret' = OrderId(symbol, date, transaction_type)
                 /\ UNCHANGED <<broker, heap, returned, analyzer, fetcher>>

\* variant: cash is restored before the new capital is stored
reset_CashBeforeCapital(new_capital) ==
    /\ call' = [op |-> "reset", initial_capital |-> new_capital]
    /\ initial_capital' = IF new_capital # None THEN new_capital ELSE initial_capital
    /\ cash' = initial_capital
    /\ holdings' = <<>>
    /\ transactions' = <<>>
    /\ current_date' = None
    /\ heap' = Collect(heap, holdings', returned)
    /\ ret' = NoneRet
    /\ UNCHANGED <<transaction_cost_pct, returned, analyzer, fetcher>>

\* variant: "if initial_capital:" instead of "if initial_capital is not None:"
reset_TruthyCapital(new_capital) ==
    /\ call' = [op |-> "reset", initial_capital |-> new_capital]
    /\ initial_capital' = IF new_capital # None /\ new_capital # 0
                          THEN new_capital ELSE initial_capital
    /\ cash' = initial_capital'
    /\ holdings' = <<>>
    /\ transactions' = <<>>
    /\ current_date' = None
    /\ heap' = Collect(heap, holdings', returned)
    /\ ret' = NoneRet
    /\ UNCHANGED <<transaction_cost_pct, returned, analyzer, fetcher>>

reset(new_capital) ==
    /\ call' = [op |-> "reset", initial_capital |-> new_capital]
    /\ initial_capital' = IF new_capital # None THEN new_capital ELSE initial_capital
    /\ cash' = initial_capital'
    /\ holdings' = <<>>
    /\ transactions' = <<>>
    /\ current_date' = None
    /\ heap' = Collect(heap, holdings', returned)
    /\ ret' = NoneRet
    /\ UNCHANGED <<transaction_cost_pct, returned, analyzer, fetcher>>

get_cash_balance ==
    /\ call' = [op |-> "get_cash_balance"]
    /\ ret' = [kind |-> "float", value |-> cash]
    /\ UNCHANGED <<broker, heap, returned, analyzer, fetcher>>

get_transactions ==
    /\ call' = [op |-> "get_transactions"]
    /\ ret' = [kind |-> "DataFrame",
               rows |-> IF transactions = <<>> THEN <<>> ELSE transactions]
    /\ UNCHANGED <<broker, heap, returned, analyzer, fetcher>>

\* variant: the suffixed key is looked up even when the bare symbol is a key
SymbolKey_AlwaysSuffixed(symbol, price_data) == symbol \o Suffix

\* symbol_key = f"{symbol}.NS" if symbol not in price_data else symbol
SymbolKey(symbol, price_data) ==
    IF symbol \notin DOMAIN price_data THEN symbol \o Suffix ELSE symbol

\* what one holding adds to holdings_value, in whole currency units
HoldingValue(holding, price_data, date) ==
    LET symbol_key == SymbolKey(holding.symbol, price_data)
    IN IF symbol_key \in DOMAIN price_data /\ date \in DOMAIN price_data[symbol_key]
       THEN <<holding.quantity * price_data[symbol_key][date], 1>>
       ELSE Frac(holding.quantity * holding.buy_price[1], holding.buy_price[2])

\* holdings_value after the first n holdings of the loop
RECURSIVE HoldingsValue(_, _, _)
HoldingsValue(n, price_data, date) ==
    IF n = 0 THEN <<0, 1>>
    ELSE FracAdd(HoldingsValue(n - 1, price_data, date),
                 HoldingValue(heap[holdings[n]], price_data, date))

\* returns self.cash + holdings_value, a fraction of 1/Scale units
get_portfolio_value(price_data, date) ==
    /\ call' = [op |-> "get_portfolio_value", price_data |-> price_data, date |-> date]
    /\ LET holdings_value == HoldingsValue(Len(holdings), price_data, date)
       IN ret' = [kind |-> "float",
                  value |-> FracAdd(<<cash, 1>>,
                                    <<holdings_value[1] * Scale, holdings_value[2]>>)]
    /\ UNCHANGED <<broker, heap, returned, analyzer, fetcher>>

\* return self.holdings.copy(): a new list of the same dicts
get_holdings ==
    /\ call' = [op |-> "get_holdings"]
    /\ returned' = holdings
    /\ heap' = Collect(heap, holdings, returned')
    /\ ret' = [kind |-> "list"]
    /\ UNCHANGED <<broker, analyzer, fetcher>>

-----------------------------------------------------------------------------
(* What a caller can do with the list get_holdings() returned *)

CallerSetQuantity(i, quantity) ==
    /\ i \in 1..Len(returned)
    /\ call' = [op |-> "caller_set_quantity"]
    /\ heap' = [heap EXCEPT ![returned[i]].quantity = quantity]
    /\ ret' = NoneRet
    /\ UNCHANGED <<broker, returned, analyzer, fetcher>>

CallerSetBuyPrice(i, price) ==
    /\ i \in 1..Len(returned)
    /\ call' = [op |-> "caller_set_buy_price"]
    /\ heap' = [heap EXCEPT ![returned[i]].buy_price = <<price, 1>>]
    /\ ret' = NoneRet
    /\ UNCHANGED <<broker, returned, analyzer, fetcher>>

CallerRemove(i) ==
    /\ i \in 1..Len(returned)
    /\ call' = [op |-> "caller_remove"]
    /\ returned' = RemoveAt(returned, i)
    /\ heap' = Collect(heap, holdings, returned')
    /\ ret' = NoneRet
    /\ UNCHANGED <<broker, analyzer, fetcher>>

CallerAppend(symbol, quantity, price) ==
    /\ Len(returned) < MaxReturned
    /\ call' = [op |-> "caller_append"]
    /\ heap' = [heap EXCEPT ![FreshId] =
                   [symbol |-> symbol, quantity |-> quantity,
                    buy_price |-> <<price, 1>>]]
    /\ returned' = Append(returned, FreshId)
    /\ ret' = NoneRet
    /\ UNCHANGED <<broker, analyzer, fetcher>>

-----------------------------------------------------------------------------
(* Specifications *)

PlaceOrder ==
    \E symbol \in Symbols, quantity \in Quantities,
       transaction_type \in TransactionTypes, price \in Prices, date \in Dates :
        place_market_order(symbol, quantity, transaction_type, price, date)

Reset == \E new_capital \in ResetCapitals \cup {None} : reset(new_capital)

Next ==
    \/ PlaceOrder
    \/ Reset
    \/ get_cash_balance
    \/ get_transactions

Spec == Init /\ [][Next]_vars

CallerMutates ==
    \/ \E i \in 1..MaxReturned, quantity \in CallerQuantities : CallerSetQuantity(i, quantity)
    \/ \E i \in 1..MaxReturned, price \in CallerPrices : CallerSetBuyPrice(i, price)
    \/ \E i \in 1..MaxReturned : CallerRemove(i)
    \/ \E symbol \in Symbols, quantity \in CallerQuantities, price \in CallerPrices :
          CallerAppend(symbol, quantity, price)

\* the broker of the end-to-end runs with a caller that keeps the returned list
InitCaller ==
    /\ Init
    /\ initial_capital = 1000 * Scale
    /\ transaction_cost_pct = DefaultCostPct

PlaceOrderCaller ==
    \E symbol \in Symbols, quantity \in {5, 20}, transaction_type \in {"BUY", "SELL"} :
        place_market_order(symbol, quantity, transaction_type, 100, 20200101)

NextCaller ==
    \/ PlaceOrderCaller
    \/ reset(None)
    \/ get_holdings
    \/ CallerMutates

SpecCaller == InitCaller /\ [][NextCaller]_vars

\* a broker whose portfolio is valued between orders
InitValuation ==
    /\ Init
    /\ initial_capital = 2000 * Scale
    /\ transaction_cost_pct = DefaultCostPct

PlaceOrderValuation ==
    \E symbol \in Symbols, quantity \in {5, 10}, transaction_type \in {"BUY", "SELL"},
       price \in Prices :
        place_market_order(symbol, quantity, transaction_type, price, 20200101)

GetPortfolioValue ==
    \E price_data \in PriceDatas, date \in ValuationDates :
        get_portfolio_value(price_data, date)

NextValuation ==
    \/ PlaceOrderValuation
    \/ reset(None)
    \/ GetPortfolioValue

SpecValuation == InitValuation /\ [][NextValuation]_vars

-----------------------------------------------------------------------------
(* BacktestResult: churn and holding period (src/core/reporting/backtest_result.py) *)

\* a broker nobody uses, for the runs of the analyzer and of the fetcher
NoBroker ==
    /\ initial_capital = 0
    /\ cash = 0
    /\ transaction_cost_pct = DefaultCostPct
    /\ holdings = <<>>
    /\ transactions = <<>>
    /\ current_date = None
    /\ heap = [i \in Ids |-> NoObj]
    /\ returned = <<>>

\* the elements of a set of numbers in increasing order
RECURSIVE Sorted(_)
Sorted(S) ==
    IF S = {} THEN <<>>
    ELSE LET m == CHOOSE x \in S : \A y \in S : x <= y
         IN <<m>> \o Sorted(S \ {m})

\* round(n / d, 2) for n >= 0, d > 0: the nearest hundredth, a tie to the even one
Round2(n, d) ==
    LET q == (100 * n) \div d
        r == (100 * n) % d
        k == IF 2 * r > d THEN q + 1
             ELSE IF 2 * r < d THEN q
             ELSE IF q % 2 = 0 THEN q ELSE q + 1
    IN Frac(k, 100)

\* the sum of a sequence of numbers
RECURSIVE SeqSum(_)
SeqSum(q) == IF q = <<>> THEN 0 ELSE q[1] + SeqSum(Tail(q))

\* dates = grouped.index.tolist(): the distinct dates of the log, sorted
GroupedDates(rows) == Sorted({rows[i].Date : i \in 1..Len(rows)})

\* grouped = self.rebalance_log.groupby("Date")["Symbol"].apply(set)
Grouped(rows) ==
    LET dates == GroupedDates(rows)
    IN [i \in 1..Len(dates) |->
          {rows[j].Symbol : j \in {j \in 1..Len(rows) : rows[j].Date = dates[i]}}]

\* variant: symbols added are counted as well as symbols dropped
ChurnCount_BothWays(earlier, later) ==
    Cardinality((earlier \ later) \cup (later \ earlier))

\* len(grouped.iloc[i - 1] - grouped.iloc[i])
ChurnCount(earlier, later) == Cardinality(earlier \ later)

compute_average_churn ==
    /\ call' = [op |-> "compute_average_churn"]
    /\ ret' = [kind |-> "float", value |->
          IF rebalance_log.is_none \/ rebalance_log.rows = <<>>
          THEN <<0, 1>>
          ELSE LET grouped == Grouped(rebalance_log.rows)
                   churn_counts == [i \in 1..(Len(grouped) - 1) |->
                                      ChurnCount(grouped[i], grouped[i + 1])]
               IN IF churn_counts # <<>>
                  THEN Round2(SeqSum(churn_counts), Len(churn_counts))
                  ELSE <<0, 1>>]
    /\ UNCHANGED <<broker, heap, returned, analyzer, fetcher>>

\* variant: the open intervals are closed one index after the last date
FinalExit_PastTheEnd(n) == n + 1

\* the index at which the intervals still open are closed: that of dates[-1]
FinalExit(n) == n

\* the loop over dates: active is the set of <<symbol, entry index>> of the
\* open intervals, tracker the set of <<symbol, entry index, exit index>>
RECURSIVE Track(_, _, _, _)
Track(grouped, i, active, tracker) ==
    IF i > Len(grouped)
    THEN tracker \cup {<<a[1], a[2], FinalExit(Len(grouped))>> : a \in active}
    ELSE LET current == grouped[i]
             entered == {<<s, i>> : s \in {s \in current : \A a \in active : a[1] # s}}
             active1 == active \cup entered
             exited == {a \in active1 : a[1] \notin current}
         IN Track(grouped, i + 1, active1 \ exited,
                  tracker \cup {<<a[1], a[2], i>> : a \in exited})

\* the sum of exit index - entry index over a set of intervals
RECURSIVE Durations(_)
Durations(periods) ==
    IF periods = {} THEN 0
    ELSE LET p == CHOOSE p \in periods : TRUE
         IN (p[3] - p[2]) + Durations(periods \ {p})

compute_average_holding_period ==
    /\ call' = [op |-> "compute_average_holding_period"]
    /\ ret' = [kind |-> "float", value |->
          IF rebalance_log.is_none \/ rebalance_log.rows = <<>>
          THEN <<0, 1>>
          ELSE LET tracker == Track(Grouped(rebalance_log.rows), 1, {}, {})
               IN IF tracker # {}
                  THEN Round2(Durations(tracker), Cardinality(tracker))
                  ELSE <<0, 1>>]
    /\ UNCHANGED <<broker, heap, returned, analyzer, fetcher>>

InitRebalance ==
    /\ NoBroker
    /\ NoFetcher
    /\ equity = <<100, 110>>
    /\ benchmark = [is_none |-> TRUE, values |-> <<>>]
    /\ rebalance_log \in RebalanceLogs
    /\ call = [op |-> "__init__"]
    /\ ret = NoneRet

NextRebalance ==
    \/ compute_average_churn
    \/ compute_average_holding_period

SpecRebalance == InitRebalance /\ [][NextRebalance]_vars

-----------------------------------------------------------------------------
(* Views of the state used by the properties *)

\* the holdings as the values of their dicts, in list order
HoldingsVal == [i \in 1..Len(holdings) |-> heap[holdings[i]]]

IsHeld(hv, symbol) == \E i \in 1..Len(hv) : hv[i].symbol = symbol
HoldingOf(hv, symbol) == hv[CHOOSE i \in 1..Len(hv) : hv[i].symbol = symbol]
QuantityOf(hv, symbol) == IF IsHeld(hv, symbol) THEN HoldingOf(hv, symbol).quantity ELSE 0

LastTransaction(log) == log[Len(log)]
AppendedOne(log, log2) == Len(log2) = Len(log) + 1 /\ SubSeq(log2, 1, Len(log)) = log

IsOrder(c) == c.op = "place_market_order"
Accepted(c, r) == IsOrder(c) /\ r.kind = "order_id"

-----------------------------------------------------------------------------
(* Properties *)

\* C1: a BUY whose quantity*price*(1+cost_rate) exceeds cash, and a SELL of a
\* symbol that is not held or held in a smaller quantity than requested,
\* returns None and leaves cash, holdings and transaction log as they were.
C1_RejectedOrderNoSideEffect ==
    [][ ( /\ IsOrder(call')
          /\ \/ /\ call'.transaction_type = "BUY"
                /\ call'.quantity * call'.price * (Scale + transaction_cost_pct) > cash
             \/ /\ call'.transaction_type = "SELL"
                /\ \/ ~IsHeld(HoldingsVal, call'.symbol)
                   \/ QuantityOf(HoldingsVal, call'.symbol) < call'.quantity )
        => /\ ret'.kind = "None"
           /\ cash' = cash
           /\ HoldingsVal' = HoldingsVal
           /\ transactions' = transactions ]_vars

\* a BUY that costs more than the cash was refused, with holdings and a log in place
C1_Witness ==
    /\ IsOrder(call) /\ call.transaction_type = "BUY" /\ call.quantity > 0
    /\ call.quantity * call.price * (Scale + transaction_cost_pct) > cash
    /\ cash >= call.quantity * call.price * Scale
    /\ ret.kind = "None"
    /\ holdings # <<>> /\ transactions # <<>>

\* C2: an accepted BUY of qty > 0 debits price*qty*(1+cost_rate); a held symbol
\* gets quantity old+qty and an average with new_qty*new_avg = old_qty*old_avg
\* + price*qty; a symbol not held gets one new holding (qty, price); one BUY
\* record carrying the resulting cash is appended.
C2_AcceptedBuy ==
    [][ ( /\ Accepted(call', ret')
          /\ call'.transaction_type = "BUY"
          /\ call'.quantity > 0 )
        => LET s == call'.symbol
               q == call'.quantity
               p == call'.price
               old == HoldingsVal
               new == HoldingsVal'
           IN /\ cash' = cash - q * p * (Scale + transaction_cost_pct)
              /\ IF IsHeld(old, s)
                 THEN LET o == HoldingOf(old, s)
                          n == HoldingOf(new, s)
                      IN /\ Len(new) = Len(old)
                         /\ IsHeld(new, s)
                         /\ n.quantity = o.quantity + q
                         \* new_qty * new_avg = old_qty * old_avg + p * q
                         /\ n.quantity * n.buy_price[1] * o.buy_price[2]
                              = (o.quantity * o.buy_price[1] + p * q * o.buy_price[2])
                                  * n.buy_price[2]
                 ELSE new = Append(old, [symbol |-> s, quantity |-> q,
                                         buy_price |-> <<p, 1>>])
              /\ AppendedOne(transactions, transactions')
              /\ LastTransaction(transactions').action = "BUY"
              /\ LastTransaction(transactions').cash_after = cash' ]_vars

\* a BUY was averaged into an existing holding bought at another price
C2_Witness ==
    /\ Accepted(call, ret) /\ call.transaction_type = "BUY"
    /\ IsHeld(HoldingsVal, call.symbol)
    /\ HoldingOf(HoldingsVal, call.symbol).quantity > call.quantity
    /\ HoldingOf(HoldingsVal, call.symbol).buy_price # <<call.price, 1>>

\* C3: an accepted SELL of qty > 0 credits price*qty*(1-cost_rate), lowers the
\* held quantity by exactly qty, removes the holding iff the result is 0, and
\* appends one SELL record carrying the resulting cash.
C3_AcceptedSell ==
    [][ ( /\ Accepted(call', ret')
          /\ call'.transaction_type = "SELL"
          /\ call'.quantity > 0 )
        => LET s == call'.symbol
               q == call'.quantity
               p == call'.price
               old == HoldingsVal
               new == HoldingsVal'
           IN /\ cash' = cash + q * p * (Scale - transaction_cost_pct)
              /\ IsHeld(old, s)
              /\ QuantityOf(new, s) = QuantityOf(old, s) - q
              /\ (~IsHeld(new, s)) <=> (QuantityOf(old, s) - q = 0)
              /\ AppendedOne(transactions, transactions')
              /\ LastTransaction(transactions').action = "SELL"
              /\ LastTransaction(transactions').cash_after = cash' ]_vars

\* a holding was sold in part and then sold out
C3_Witness ==
    /\ Accepted(call, ret) /\ call.transaction_type = "SELL"
    /\ ~IsHeld(HoldingsVal, call.symbol)
    /\ Len(transactions) = 3
    /\ transactions[2].action = "SELL" /\ transactions[2].symbol = call.symbol
    /\ transactions[1].quantity = transactions[2].quantity + transactions[3].quantity

\* C4: every place_market_order call, whatever the action argument, returns an
\* order id if and only if it appended exactly one transaction, and a call
\* that returns None changed nothing.
C4_NoPartialApplication ==
    [][ IsOrder(call')
        => /\ (ret'.kind = "order_id") <=> AppendedOne(transactions, transactions')
           /\ ret'.kind = "None" =>
                 /\ cash' = cash
                 /\ HoldingsVal' = HoldingsVal
                 /\ transactions' = transactions ]_vars

\* C5: cash is never negative.
C5_CashNeverNegative == cash >= 0

\* a BUY spent the cash down to exactly 0
C5_Witness ==
    /\ Accepted(call, ret) /\ call.transaction_type = "BUY"
    /\ cash = 0 /\ initial_capital > 0

\* C6: at most one holding per symbol, and every holding present has quantity > 0.
C6_HoldingsWellFormed ==
    LET hv == HoldingsVal
    IN /\ \A i, j \in 1..Len(hv) : hv[i].symbol = hv[j].symbol => i = j
       /\ \A i \in 1..Len(hv) : hv[i].quantity > 0

\* a holding was sold out and dropped while another one stays
C6_Witness ==
    /\ Accepted(call, ret) /\ call.transaction_type = "SELL"
    /\ ~IsHeld(HoldingsVal, call.symbol)
    /\ Len(holdings) = 1
    /\ HoldingsVal[1].quantity = 10

\* C7: nothing a caller does to the list get_holdings() returned, or to the
\* records in it, changes the broker's holdings.
C7_DefensiveCopy ==
    [][ call'.op \in {"caller_set_quantity", "caller_set_buy_price",
                      "caller_remove", "caller_append"}
        => HoldingsVal' = HoldingsVal ]_vars

\* C8: reset(c) sets cash to c, reset() sets cash to the initial capital; both
\* leave holdings and transaction log empty.
C8_Reset ==
    [][ call'.op = "reset"
        => /\ cash' = IF call'.initial_capital # None
                      THEN call'.initial_capital ELSE initial_capital
           /\ HoldingsVal' = <<>>
           /\ transactions' = <<>> ]_vars

\* reset() without a capital has run and restored the initial capital
C8_Witness ==
    /\ call.op = "reset" /\ call.initial_capital = None
    /\ cash = 2000 * Scale
    /\ holdings = <<>> /\ transactions = <<>>

\* C9: place_market_order with quantity <= 0 returns None and leaves cash,
\* holdings and transaction log unchanged.
C9_NonPositiveQuantity ==
    [][ (IsOrder(call') /\ call'.quantity <= 0)
        => /\ ret'.kind = "None"
           /\ cash' = cash
           /\ HoldingsVal' = HoldingsVal
           /\ transactions' = transactions ]_vars

\* a BUY of quantity 0 was refused by a broker that holds shares
C9_Witness ==
    /\ IsOrder(call) /\ call.quantity = 0 /\ call.transaction_type = "BUY"
    /\ ret.kind = "None"
    /\ holdings # <<>> /\ cash > 0

\* C10: each accepted order appends exactly one record with the order's action,
\* symbol, quantity and price and the cash right after it; no call changes or
\* removes an earlier record; the last record's cash_after is the current cash;
\* get_transactions() returns the records in that order.
C10_AppendOnlyLog ==
    [][ /\ Accepted(call', ret')
           => /\ AppendedOne(transactions, transactions')
              /\ LET t == LastTransaction(transactions')
                 IN /\ t.action = call'.transaction_type
                    /\ t.symbol = call'.symbol
                    /\ t.quantity = call'.quantity
                    /\ t.price = call'.price
                    /\ t.cash_after = cash'
        /\ IsOrder(call')
           => /\ Len(transactions') >= Len(transactions)
              /\ SubSeq(transactions', 1, Len(transactions)) = transactions
        /\ transactions' # <<>> => LastTransaction(transactions').cash_after = cash'
        /\ call'.op = "get_transactions" => ret'.rows = transactions ]_vars

\* the part of C10 that does not depend on the action argument: the same
\* statement for orders whose action is BUY or SELL
LogAppendOnlyForBuySell ==
    [][ /\ (Accepted(call', ret') /\ call'.transaction_type \in {"BUY", "SELL"})
           => /\ AppendedOne(transactions, transactions')
              /\ LET t == LastTransaction(transactions')
                 IN /\ t.action = call'.transaction_type
                    /\ t.symbol = call'.symbol
                    /\ t.quantity = call'.quantity
                    /\ t.price = call'.price
                    /\ t.cash_after = cash'
        /\ IsOrder(call')
           => /\ Len(transactions') >= Len(transactions)
              /\ SubSeq(transactions', 1, Len(transactions)) = transactions
        /\ transactions' # <<>> => LastTransaction(transactions').cash_after = cash'
        /\ call'.op = "get_transactions" => ret'.rows = transactions ]_vars

\* C11: get_portfolio_value returns cash plus, for every holding, quantity
\* times the Close of the date (under the symbol, or under the suffixed symbol
\* when the bare symbol is no key) where price_data has one, and quantity times
\* the average buy price otherwise; cash, holdings and log stay as they were.
C11_PortfolioValue ==
    [][ call'.op = "get_portfolio_value"
        => LET pd == call'.price_data
               d == call'.date
               HasClose(k) == k \in DOMAIN pd /\ d \in DOMAIN pd[k]
               \* the value of the shares of symbol s, a fraction of whole units
               Worth(s) ==
                   IF ~IsHeld(HoldingsVal, s) THEN <<0, 1>>
                   ELSE LET h == HoldingOf(HoldingsVal, s)
                        IN IF s \in DOMAIN pd /\ HasClose(s)
                           THEN <<h.quantity * pd[s][d], 1>>
                           ELSE IF s \notin DOMAIN pd /\ HasClose(s \o Suffix)
                           THEN <<h.quantity * pd[s \o Suffix][d], 1>>
                           ELSE <<h.quantity * h.buy_price[1], h.buy_price[2]>>
               v == ret'.value
               a == Worth("A")
               b == Worth("B")
           IN /\ ret'.kind = "float"
              \* v - cash = Scale * (a + b), both sides as reduced fractions
              /\ LET worth == FracAdd(a, b)
                 IN FracAdd(v, <<0 - cash, 1>>) = Frac(Scale * worth[1], worth[2])
              /\ cash' = cash
              /\ HoldingsVal' = HoldingsVal
              /\ transactions' = transactions ]_vars

\* a portfolio was valued with B at its Close under the suffixed key and A at
\* its average buy price, the bare key "A" having no row for the date
C11_Witness ==
    /\ call.op = "get_portfolio_value"
    /\ "A" \in DOMAIN call.price_data
    /\ call.date \notin DOMAIN call.price_data["A"]
    /\ ("A" \o Suffix) \in DOMAIN call.price_data
    /\ call.date \in DOMAIN call.price_data["A" \o Suffix]
    /\ ("B" \o Suffix) \in DOMAIN call.price_data
    /\ call.date \in DOMAIN call.price_data["B" \o Suffix]
    /\ IsHeld(HoldingsVal, "A") /\ IsHeld(HoldingsVal, "B")
    /\ HoldingOf(HoldingsVal, "A").buy_price = <<105, 1>>
    /\ ret.value = <<cash + Scale * (10 * 105 + 5 * Close("B" \o Suffix, call.date)), 1>>

\* the sum over the log of what each record did to the cash
RECURSIVE CashFlow(_)
CashFlow(log) ==
    IF log = <<>> THEN 0
    ELSE LET t == log[Len(log)]
             rest == CashFlow(SubSeq(log, 1, Len(log) - 1))
         IN IF t.action = "BUY"
            THEN rest - (t.quantity * t.price * Scale + t.transaction_cost)
            ELSE rest + (t.quantity * t.price * Scale - t.transaction_cost)

\* the quantity of symbol bought minus the quantity sold, over the log
RECURSIVE NetQuantity(_, _)
NetQuantity(log, symbol) ==
    IF log = <<>> THEN 0
    ELSE LET t == log[Len(log)]
             rest == NetQuantity(SubSeq(log, 1, Len(log) - 1), symbol)
         IN IF t.symbol # symbol THEN rest
            ELSE IF t.action = "BUY" THEN rest + t.quantity ELSE rest - t.quantity

\* C17: cash equals the initial capital minus the logged BUY outflows
\* (quantity*price + transaction_cost) plus the logged SELL proceeds
\* (quantity*price - transaction_cost), and every symbol's held quantity is
\* its logged BUY quantity minus its logged SELL quantity.
C17_AccountingConservation ==
    /\ cash = initial_capital + CashFlow(transactions)
    /\ \A s \in Symbols : QuantityOf(HoldingsVal, s) = NetQuantity(transactions, s)

\* a log with buys of both symbols and a partial sale
C17_Witness ==
    /\ Len(transactions) = 3
    /\ transactions[3].action = "SELL"
    /\ transaction_cost_pct = DefaultCostPct
    /\ Len(holdings) = 2
    /\ QuantityOf(HoldingsVal, transactions[3].symbol) = 5

\* C18: an accepted BUY or SELL of symbol S leaves every holding of another
\* symbol, the initial capital and the cost rate unchanged, and a SELL that
\* leaves a positive quantity leaves the buy price of S unchanged.
C18_OrderFrame ==
    [][ (Accepted(call', ret') /\ call'.transaction_type \in {"BUY", "SELL"})
        => LET old == HoldingsVal
               new == HoldingsVal'
           IN /\ \A s \in Symbols \ {call'.symbol} :
                    /\ IsHeld(new, s) <=> IsHeld(old, s)
                    /\ IsHeld(old, s) => HoldingOf(new, s) = HoldingOf(old, s)
              /\ initial_capital' = initial_capital
              /\ transaction_cost_pct' = transaction_cost_pct
              /\ (call'.transaction_type = "SELL" /\ IsHeld(new, call'.symbol))
                    => HoldingOf(new, call'.symbol).buy_price
                         = HoldingOf(old, call'.symbol).buy_price ]_vars

\* part of a holding was sold while the other symbol is held
C18_Witness ==
    /\ Accepted(call, ret) /\ call.transaction_type = "SELL"
    /\ IsHeld(HoldingsVal, call.symbol)
    /\ Len(holdings) = 2

\* C19: reset(c) stores c (also c = 0) as the initial capital and as the cash,
\* no other call changes the initial capital, and reset() restores the cash to
\* the stored capital.
C19_ResetReplacesCapital ==
    [][ /\ (call'.op = "reset" /\ call'.initial_capital # None)
           => /\ initial_capital' = call'.initial_capital
              /\ cash' = call'.initial_capital
        /\ (call'.op = "reset" /\ call'.initial_capital = None)
           => /\ initial_capital' = initial_capital
              /\ cash' = initial_capital
        /\ call'.op # "reset" => initial_capital' = initial_capital ]_vars

\* reset() restored a capital that only an earlier reset(c) can have stored
C19_Witness ==
    /\ call.op = "reset" /\ call.initial_capital = None
    /\ initial_capital = 500 * Scale
    /\ cash = 500 * Scale

-----------------------------------------------------------------------------
(* BacktestResult: metrics of the curves *)

FracSub(a, b) == FracAdd(a, <<0 - b[1], b[2]>>)
FracMul(a, b) == Frac(a[1] * b[1], a[2] * b[2])
FracLess(a, b) == a[1] * b[2] < b[1] * a[2]
\* a / b for b > 0
FracDiv(a, b) == Frac(a[1] * b[2], a[2] * b[1])

RECURSIVE FracSum(_)
FracSum(q) == IF q = <<>> THEN <<0, 1>> ELSE FracAdd(q[1], FracSum(Tail(q)))

NanRet == [kind |-> "nan"]
Raise(error) == [kind |-> "raise", error |-> error]

\* variant: the peak is the maximum of the whole series
CumMax_Global(series) ==
    [i \in 1..Len(series) |->
        CHOOSE m \in Range(series) : \A j \in 1..Len(series) : series[j] <= m]

\* peak = equity.cummax()
CumMax(series) ==
    [i \in 1..Len(series) |->
        IF i = 1 THEN series[1]
        ELSE CHOOSE m \in {series[j] : j \in 1..i} : \A j \in 1..i : series[j] <= m]

\* drawdown = (equity - peak) / peak
Drawdown(series) ==
    LET peak == CumMax(series)
    IN [i \in 1..Len(series) |-> Frac(series[i] - peak[i], peak[i])]

\* the minimum of a sequence of fractions
RECURSIVE FracMin(_)
FracMin(q) ==
    IF Len(q) = 1 THEN q[1]
    ELSE LET m == FracMin(Tail(q)) IN IF FracLess(m, q[1]) THEN m ELSE q[1]

\* the drawdown of a series; NaN for an empty one
MaxDrawdown(series) ==
    IF series = <<>> THEN NanRet
    ELSE [kind |-> "float", value |-> FracMin(Drawdown(series))]

\* compute_max_drawdown(series): series is None or self.benchmark
compute_max_drawdown(of_benchmark) ==
    /\ call' = [op |-> "compute_max_drawdown", of_benchmark |-> of_benchmark]
    /\ ret' = MaxDrawdown(IF of_benchmark /\ ~benchmark.is_none
                          THEN benchmark.values ELSE equity)
    /\ UNCHANGED <<broker, heap, returned, analyzer, fetcher>>

\* series.pct_change().dropna()
Returns(series) ==
    [i \in 1..(Len(series) - 1) |-> Frac(series[i + 1] - series[i], series[i])]

\* the sign of a fraction
Sign(a) == IF a[1] > 0 THEN 1 ELSE IF a[1] < 0 THEN 0 - 1 ELSE 0

\* excess.std() is 0: at least two values (ddof = 1), all the same
StdIsZero(excess) ==
    Len(excess) >= 2 /\ \A i \in 1..Len(excess) : excess[i] = excess[1]

\* (excess.mean() / excess.std()) * np.sqrt(252), as the kind of float it is:
\* the magnitude of a finite result is irrational and is not modelled
compute_sharpe(risk_free_rate) ==
    /\ call' = [op |-> "compute_sharpe", risk_free_rate |-> risk_free_rate]
    /\ LET returns == Returns(equity)
           daily == Frac(risk_free_rate[1], risk_free_rate[2] * TradingDays)
           excess == [i \in 1..Len(returns) |-> FracSub(returns[i], daily)]
       IN ret' =
            IF Len(excess) < 2
            THEN NanRet                  \* mean or std of too few values is NaN
            ELSE LET mean == FracDiv(FracSum(excess), <<Len(excess), 1>>)
                 IN IF StdIsZero(excess)
                    THEN IF Sign(mean) = 0 THEN NanRet      \* 0.0 / 0.0
                         ELSE [kind |-> "inf", sign |-> Sign(mean)]  \* x / 0.0
                    ELSE [kind |-> "finite", sign |-> Sign(mean)]
    /\ UNCHANGED <<broker, heap, returned, analyzer, fetcher>>

\* variant: a year of 365 days
CagrOfBenchmark_Year365(series) ==
    [base |-> Frac(series[Len(series)], series[1]),
     exponent |-> Frac(36500, 100 * (Len(series) - 1))]

\* line 50: (benchmark.iloc[-1] / benchmark.iloc[0]) ** (1 / (days / 365.25)),
\* kept as base and exponent
CagrOfBenchmark(series) ==
    [base |-> Frac(series[Len(series)], series[1]),
     exponent |-> Frac(YearDays100, 100 * (Len(series) - 1))]

\* line 19-21: (equity.iloc[-1] / equity.iloc[0]) ** (1 / years), kept as base
\* and exponent; 1 / years raises when the curve spans 0 days
Cagr(series) ==
    IF Len(series) - 1 = 0 THEN Raise("ZeroDivisionError")
    ELSE [kind |-> "float",
          base |-> Frac(series[Len(series)], series[1]),
          exponent |-> Frac(YearDays100, 100 * (Len(series) - 1))]

compute_cagr ==
    /\ call' = [op |-> "compute_cagr"]
    /\ ret' = Cagr(equity)
    /\ UNCHANGED <<broker, heap, returned, analyzer, fetcher>>

compute_alpha ==
    /\ call' = [op |-> "compute_alpha"]
    /\ ret' =
         IF benchmark.is_none THEN NoneRet
         ELSE LET strategy_return == Cagr(equity)
              IN IF strategy_return.kind = "raise" THEN strategy_return
                 ELSE IF benchmark.values = <<>> THEN Raise("IndexError")
                 ELSE IF Len(benchmark.values) - 1 = 0 THEN Raise("ZeroDivisionError")
                 ELSE [kind |-> "float",
                       strategy_return |-> [base |-> strategy_return.base,
                                            exponent |-> strategy_return.exponent],
                       bench_return |-> CagrOfBenchmark(benchmark.values)]
    /\ UNCHANGED <<broker, heap, returned, analyzer, fetcher>>

\* the sample variance of the returns, or NaN below two returns
Variance(returns) ==
    IF Len(returns) < 2 THEN NanRet
    ELSE LET mean == FracDiv(FracSum(returns), <<Len(returns), 1>>)
             squares == [i \in 1..Len(returns) |->
                           FracMul(FracSub(returns[i], mean), FracSub(returns[i], mean))]
         IN [kind |-> "float",
             value |-> FracDiv(FracSum(squares), <<Len(returns) - 1, 1>>)]

\* if self.benchmark is None or self.benchmark.empty
BenchmarkMissing(b) == b.is_none \/ b.values = <<>>

\* the one row of the table; CAGR and volatility are kept unrounded (base and
\* exponent, variance of the returns), the absolute return unformatted
benchmark_summary ==
    /\ call' = [op |-> "benchmark_summary"]
    /\ ret' =
         IF BenchmarkMissing(benchmark)
         THEN [kind |-> "DataFrame", rows |-> <<>>]
         ELSE LET b == benchmark.values IN
              IF Len(b) - 1 = 0 THEN Raise("ZeroDivisionError")
              ELSE [kind |-> "DataFrame", rows |-> <<
                      [CAGR |-> CagrOfBenchmark(b),
                       AbsoluteReturn |-> Frac(b[Len(b)] - b[1], b[1]),
                       MaxDrawdown |-> MaxDrawdown(b),
                       Volatility |-> Variance(Returns(b))] >>]
    /\ UNCHANGED <<broker, heap, returned, analyzer, fetcher>>

InitCurves ==
    /\ NoBroker
    /\ NoFetcher
    /\ equity \in Curves(1)
    /\ benchmark \in {[is_none |-> TRUE, values |-> <<>>]}
                     \cup {[is_none |-> FALSE, values |-> v] : v \in Curves(0)}
    /\ rebalance_log = [is_none |-> TRUE, rows |-> <<>>]
    /\ call = [op |-> "__init__"]
    /\ ret = NoneRet

NextCurves ==
    \/ \E of_benchmark \in BOOLEAN : compute_max_drawdown(of_benchmark)
    \/ \E risk_free_rate \in RiskFreeRates : compute_sharpe(risk_free_rate)
    \/ compute_cagr
    \/ compute_alpha
    \/ benchmark_summary

SpecCurves == InitCurves /\ [][NextCurves]_vars

-----------------------------------------------------------------------------
(* Properties of churn and holding period *)

\* the rebalance log seen as a relation between dates and symbols
LogRows == {rebalance_log.rows[j] : j \in 1..Len(rebalance_log.rows)}
LogDates == {r.Date : r \in LogRows}
MemberOn(symbol, date) == [Date |-> date, Symbol |-> symbol] \in LogRows
\* pairs of dates of the log with no date of the log between them
ConsecutiveDates ==
    {p \in LogDates \X LogDates :
        p[1] < p[2] /\ ~\E d \in LogDates : p[1] < d /\ d < p[2]}
\* one element per symbol present on the earlier date of a pair and absent from the later
DroppedPositions ==
    {<<p, s>> \in ConsecutiveDates \X RebalanceSymbols :
        MemberOn(s, p[1]) /\ ~MemberOn(s, p[2])}

\* value is the float nearest to n / d among those with 2 decimals
IsRounded2(value, n, d) ==
    /\ 100 % value[2] = 0
    /\ LET k == value[1] * (100 \div value[2])
           diff == 200 * n - 2 * k * d
       IN diff <= d /\ 0 - diff <= d

\* C12 as stated: the result is the mean of the dropped counts over the
\* consecutive pairs of dates, and 0.0 without a log or with fewer than 2 dates.
C12_ChurnIsExactMean ==
    call.op = "compute_average_churn"
    => IF rebalance_log.is_none \/ Cardinality(LogDates) < 2
       THEN ret.value = <<0, 1>>
       ELSE ret.value[1] * Cardinality(ConsecutiveDates)
              = ret.value[2] * Cardinality(DroppedPositions)

\* C12: compute_average_churn returns the mean, over the consecutive pairs of
\* dates, of the number of symbols dropped, ROUNDED TO 2 DECIMALS, and 0.0 when
\* the log is absent, empty or has fewer than 2 distinct dates; it is 1.0 for
\* {A,B} followed by {B,C}.
C12_ChurnIsRoundedMean ==
    call.op = "compute_average_churn"
    => /\ ret.kind = "float"
       /\ IF rebalance_log.is_none \/ Cardinality(LogDates) < 2
          THEN ret.value = <<0, 1>>
          ELSE IsRounded2(ret.value, Cardinality(DroppedPositions),
                          Cardinality(ConsecutiveDates))
       /\ ( /\ Cardinality(LogDates) = 2
            /\ \E p \in ConsecutiveDates :
                  /\ {s \in RebalanceSymbols : MemberOn(s, p[1])} = {"A", "B"}
                  /\ {s \in RebalanceSymbols : MemberOn(s, p[2])} = {"B", "C"} )
          => ret.value = <<1, 1>>

\* one symbol dropped over three pairs of dates: the mean 1/3 is returned as 0.33
C12_Witness ==
    /\ call.op = "compute_average_churn"
    /\ Cardinality(ConsecutiveDates) = 3
    /\ Cardinality(DroppedPositions) = 1
    /\ ret.value = <<33, 100>>

\* the index of a date of the log among its dates
DateIndex(date) == Cardinality({d \in LogDates : d <= date})
DateAt(i) == CHOOSE d \in LogDates : DateIndex(d) = i
MemberAt(symbol, i) == MemberOn(symbol, DateAt(i))
\* the first index of every maximal run of consecutive dates with the symbol
RunStarts ==
    {x \in RebalanceSymbols \X (1..Cardinality(LogDates)) :
        MemberAt(x[1], x[2]) /\ (x[2] = 1 \/ ~MemberAt(x[1], x[2] - 1))}
\* where the run starting at x ends: the first later index without the symbol,
\* or the last index
RunExit(x) ==
    LET n == Cardinality(LogDates)
        absent == {j \in (x[2] + 1)..n : ~MemberAt(x[1], j)}
    IN IF absent = {} THEN n ELSE CHOOSE j \in absent : \A k \in absent : j <= k
\* one element per period unit of every run: their number is the sum of the durations
RunUnits == {<<x, j>> \in RunStarts \X (1..Cardinality(LogDates)) :
                x[2] <= j /\ j < RunExit(x)}

\* C13 as stated: the result is the mean of exit index - entry index over the
\* intervals of all maximal runs, and 0.0 when there are none.
C13_HoldingPeriodIsExactMean ==
    call.op = "compute_average_holding_period"
    => IF rebalance_log.is_none \/ RunStarts = {}
       THEN ret.value = <<0, 1>>
       ELSE ret.value[1] * Cardinality(RunStarts) = ret.value[2] * Cardinality(RunUnits)

\* C13: compute_average_holding_period returns the mean of exit index - entry
\* index over one interval per maximal run of membership (closed at the first
\* later date without the symbol, or at the last date index), ROUNDED TO 2
\* DECIMALS, and 0.0 when there are no intervals.
C13_HoldingPeriodIsRoundedMean ==
    call.op = "compute_average_holding_period"
    => /\ ret.kind = "float"
       /\ IF rebalance_log.is_none \/ RunStarts = {}
          THEN ret.value = <<0, 1>>
          ELSE IsRounded2(ret.value, Cardinality(RunUnits), Cardinality(RunStarts))

\* a symbol left and came back, another is still held at the end: three
\* intervals whose mean is not a multiple of 0.01
C13_Witness ==
    /\ call.op = "compute_average_holding_period"
    /\ \E s \in RebalanceSymbols : Cardinality({x \in RunStarts : x[1] = s}) = 2
    /\ Cardinality(RunStarts) = 3
    /\ ret.value[2] = 100

-----------------------------------------------------------------------------
(* get_universe_symbols *)

\* strings that the code takes apart are sequences of characters
Nifty == <<"n", "i", "f", "t", "y">>
Universes == {
    Nifty \o <<"5", "0">>,
    Nifty \o <<"5", "0", "0">>,
    Nifty \o <<"-", "5">>,
    Nifty \o <<"5", "_", "0">>,
    Nifty,
    Nifty \o <<"a", "b">>,
    Nifty \o <<"_", "5">>,
    <<"n", "i", "f">> \o Nifty \o <<"t", "y", "5">> }

\* the universes that may have a cached file from an earlier run
CachedBefore == {Nifty \o <<"5", "0">>, Nifty \o <<"a", "b">>}

\* the Symbol column of a table; "" is an empty cell
Missing == ""
DummySymbols == {"DUMMYHDFC"}
SymbolColumns == {<<"TCS", "DUMMYHDFC", "", "TCS">>}
\* a table with or without a Symbol column
Tables == {[has_symbol |-> TRUE, Symbol |-> c] : c \in SymbolColumns}
              \cup {[has_symbol |-> FALSE, Symbol |-> <<>>]}
StatusCodes == {200, 404, 500}
Responses == [status_code : StatusCodes, text : Tables]

StartsWith(s, prefix) ==
    Len(s) >= Len(prefix) /\ SubSeq(s, 1, Len(prefix)) = prefix

\* s.replace(old, ""): every occurrence of old from left to right, once
RECURSIVE Removed(_, _)
Removed(s, old) ==
    IF s = <<>> THEN <<>>
    ELSE IF StartsWith(s, old) THEN Removed(SubSeq(s, Len(old) + 1, Len(s)), old)
    ELSE <<s[1]>> \o Removed(Tail(s), old)

DigitChars == <<"0", "1", "2", "3", "4", "5", "6", "7", "8", "9">>
IsDigit(c) == c \in Range(DigitChars)
DigitValue(c) == (CHOOSE i \in 1..Len(DigitChars) : DigitChars[i] = c) - 1

RECURSIVE Strip(_)
Strip(s) ==
    IF s = <<>> THEN s
    ELSE IF s[1] = " " THEN Strip(Tail(s))
    ELSE IF s[Len(s)] = " " THEN Strip(SubSeq(s, 1, Len(s) - 1))
    ELSE s

Unsigned(s) == IF s # <<>> /\ s[1] \in {"+", "-"} THEN Tail(s) ELSE s

\* what int() accepts: blanks around, a sign, digits with single underscores
\* between them
IsIntLiteral(s) ==
    LET d == Unsigned(Strip(s))
    IN /\ d # <<>>
       /\ IsDigit(d[1]) /\ IsDigit(d[Len(d)])
       /\ \A i \in 1..Len(d) : IsDigit(d[i]) \/ d[i] = "_"
       /\ \A i \in 1..(Len(d) - 1) : ~(d[i] = "_" /\ d[i + 1] = "_")

RECURSIVE DigitsValue(_, _)
DigitsValue(d, acc) ==
    IF d = <<>> THEN acc
    ELSE IF d[1] = "_" THEN DigitsValue(Tail(d), acc)
    ELSE DigitsValue(Tail(d), 10 * acc + DigitValue(d[1]))

IntOf(s) ==
    LET t == Strip(s)
        v == DigitsValue(Unsigned(t), 0)
    IN IF t[1] = "-" THEN 0 - v ELSE v

\* load_from_file(cache_file): the records of the file, None without a file
LoadFromFile(dir, cache_file) ==
    IF cache_file \in DOMAIN dir THEN [is_none |-> FALSE, records |-> dir[cache_file]]
    ELSE [is_none |-> TRUE, records |-> [has_symbol |-> FALSE, Symbol |-> <<>>]]

\* save_to_file(records, cache_file)
SaveToFile(dir, records, cache_file) ==
    [name \in DOMAIN dir \cup {cache_file} |->
        IF name = cache_file THEN records ELSE dir[name]]

RECURSIVE Unique(_)
Unique(q) ==
    IF q = <<>> THEN q
    ELSE LET rest == Unique(SubSeq(q, 1, Len(q) - 1))
         IN IF q[Len(q)] \in Range(rest) THEN rest ELSE Append(rest, q[Len(q)])

\* df["Symbol"].dropna().unique().tolist(), without the DUMMY symbols
SymbolList(df) ==
    LET symbols == Unique(SelectSeq(df.Symbol, LAMBDA x : x # Missing))
    IN SelectSeq(symbols, LAMBDA x : x \notin DummySymbols)

Event(op, size, file) == [op |-> op, size |-> size, file |-> file]

\* variant: only a server error fails the call
FetchFailed_OnlyServerErrors(response) == response.status_code >= 500

\* if response.status_code != 200
FetchFailed(response) == response.status_code # 200

\* the call, with what the environment answers: caching is the answer of
\* is_caching_enabled(), response the answer of requests.get(url)
get_universe_symbols(universe, caching, response) ==
    LET text == Removed(universe, Nifty)
        cached_data == LoadFromFile(cache_dir, universe)
        load == IF caching THEN <<Event("load", 0, universe)>> ELSE <<>>
        Finish(df) == IF df.has_symbol THEN [kind |-> "list", value |-> SymbolList(df)]
                      ELSE Raise("KeyError")
    IN /\ call' = [op |-> "get_universe_symbols", universe |-> universe,
                   caching |-> caching, response |-> response]
       /\ IF ~IsIntLiteral(text)
          THEN /\ ret' = Raise("ValueError")
               /\ io' = <<>>
               /\ UNCHANGED cache_dir
          ELSE LET size == IntOf(text)
                   get == <<Event("get", size, <<>>)>>
               IN IF caching /\ ~cached_data.is_none
                  THEN /\ ret' = Finish(cached_data.records)
                       /\ io' = load
                       /\ UNCHANGED cache_dir
                  ELSE IF FetchFailed(response)
                  THEN /\ ret' = Raise("Exception")
                       /\ io' = load \o get
                       /\ UNCHANGED cache_dir
                  ELSE IF caching
                  THEN /\ cache_dir' = SaveToFile(cache_dir, response.text, universe)
                       /\ io' = load \o get \o <<Event("save", 0, universe)>>
                       /\ ret' = Finish(response.text)
                  ELSE /\ ret' = Finish(response.text)
                       /\ io' = get
                       /\ UNCHANGED cache_dir
       /\ UNCHANGED <<broker, heap, returned, analyzer>>

InitUniverse ==
    /\ NoBroker
    /\ NoAnalyzer
    /\ cache_dir \in {NoFiles} \cup
                     {SaveToFile(NoFiles, t, u) : t \in Tables, u \in CachedBefore}
    /\ io = <<>>
    /\ call = [op |-> "__init__"]
    /\ ret = NoneRet

NextUniverse ==
    \E universe \in Universes, caching \in BOOLEAN, response \in Responses :
        get_universe_symbols(universe, caching, response)

SpecUniverse == InitUniverse /\ [][NextUniverse]_vars

-----------------------------------------------------------------------------
(* Properties of the curve metrics *)

\* the series a compute_max_drawdown call worked on
SeriesOf(c) ==
    IF c.of_benchmark /\ ~benchmark.is_none THEN benchmark.values ELSE equity

\* m is the running maximum of s up to index i
IsRunMax(s, i, m) ==
    /\ \E j \in 1..i : s[j] = m
    /\ \A j \in 1..i : s[j] <= m

NonDecreasing(s) == \A i \in 1..(Len(s) - 1) : s[i] <= s[i + 1]

\* v = (s[i] - m) / m, and v <= (s[i] - m) / m, for m > 0
IsDrawdownAt(v, s, i, m) == v[1] * m = (s[i] - m) * v[2]
AtMostDrawdownAt(v, s, i, m) == v[1] * m <= (s[i] - m) * v[2]

\* C14: for a non-empty series of positive values the maximum drawdown is the
\* minimum over the series of (v - runmax) / runmax, runmax being the running
\* maximum up to and including that point; it is <= 0, and it is 0 exactly
\* when the series is non-decreasing
C14_MaxDrawdown ==
    (call.op = "compute_max_drawdown" /\ SeriesOf(call) # <<>>) =>
        LET s == SeriesOf(call)
            v == ret.value
        IN /\ ret.kind = "float"
           /\ v[2] > 0
           /\ \E i \in 1..Len(s) : \E m \in Range(s) :
                 IsRunMax(s, i, m) /\ IsDrawdownAt(v, s, i, m)
           /\ \A i \in 1..Len(s) : \A m \in Range(s) :
                 IsRunMax(s, i, m) => AtMostDrawdownAt(v, s, i, m)
           /\ v[1] <= 0
           /\ (v[1] = 0) <=> NonDecreasing(s)

\* a curve that falls to a quarter of its peak and ends above its start
C14_Witness ==
    /\ call.op = "compute_max_drawdown"
    /\ ~call.of_benchmark
    /\ equity = <<4, 1, 2>>
    /\ ret = [kind |-> "float", value |-> <<0 - 3, 4>>]

\* a non-decreasing benchmark curve has no drawdown
C14_WitnessZero ==
    /\ call.op = "compute_max_drawdown"
    /\ call.of_benchmark
    /\ ~benchmark.is_none
    /\ benchmark.values = <<1, 2, 2>>
    /\ ret = [kind |-> "float", value |-> <<0, 1>>]

\* the standard deviation of the daily returns of the equity curve is 0
ReturnsStdIsZero ==
    /\ Len(equity) >= 3
    /\ \A i \in 2..(Len(equity) - 1) :
          (equity[i + 1] - equity[i]) * equity[i - 1]
              = (equity[i] - equity[i - 1]) * equity[i]

\* C15: compute_sharpe returns NaN whenever the standard deviation of the
\* returns is 0, for every risk-free rate: never a finite or an infinite
\* number, never an exception
C15_SharpeNaNAtZeroStd ==
    (call.op = "compute_sharpe" /\ ReturnsStdIsZero) => ret.kind = "nan"

\* a flat curve under a positive risk-free rate: the ratio is -inf
C15_InfiniteSharpe ==
    /\ call.op = "compute_sharpe"
    /\ equity = <<2, 2, 2>>
    /\ call.risk_free_rate = <<5, 100>>
    /\ ret = [kind |-> "inf", sign |-> 0 - 1]

\* the annualisation of a curve: growth over the curve, to the power of
\* 365.25 over the days it spans
Annualized(s) ==
    [base |-> Frac(s[Len(s)], s[1]),
     exponent |-> Frac(36525, 100 * (Len(s) - 1))]

\* C16: without a benchmark compute_alpha returns null and benchmark_summary
\* an empty table, neither raising; with a benchmark (both curves spanning
\* more than 0 days) compute_alpha is the strategy CAGR minus the benchmark
\* CAGR, both annualised by the same formula
C16_AlphaAndSummary ==
    /\ (call.op = "compute_alpha" /\ benchmark.is_none) => ret = NoneRet
    /\ (call.op = "benchmark_summary" /\ benchmark.is_none) =>
          ret = [kind |-> "DataFrame", rows |-> <<>>]
    /\ (/\ call.op = "compute_alpha"
        /\ ~benchmark.is_none
        /\ Len(equity) >= 2
        /\ Len(benchmark.values) >= 2) =>
          /\ ret.kind = "float"
          /\ ret.strategy_return = Annualized(equity)
          /\ ret.bench_return = Annualized(benchmark.values)

\* alpha of a strategy that doubles in a day against a benchmark that
\* quadruples in two
C16_Witness ==
    /\ call.op = "compute_alpha"
    /\ equity = <<1, 2>>
    /\ ~benchmark.is_none
    /\ benchmark.values = <<1, 2, 4>>
    /\ ret.kind = "float"
    /\ ret.strategy_return = [base |-> <<2, 1>>, exponent |-> <<1461, 4>>]
    /\ ret.bench_return = [base |-> <<4, 1>>, exponent |-> <<1461, 8>>]

\* the two calls without a benchmark
C16_WitnessNoBenchmarkAlpha ==
    call.op = "compute_alpha" /\ benchmark.is_none /\ ret = NoneRet

C16_WitnessNoBenchmarkSummary ==
    /\ call.op = "benchmark_summary"
    /\ benchmark.is_none
    /\ ret = [kind |-> "DataFrame", rows |-> <<>>]

-----------------------------------------------------------------------------
(* Properties of get_universe_symbols *)

Ops(trace) == {trace[i].op : i \in 1..Len(trace)}

\* the list has to be fetched: caching disabled, or no cached file
MustFetch(c, dir) == ~c.caching \/ c.universe \notin DOMAIN dir

\* C20: a universe whose part after removing "nifty" is not an integer raises
\* before any cache read or request; a needed fetch answered with a status
\* other than 200 raises, returns no list and writes nothing to the cache; the
\* cache is only written after a status-200 response
C20_FailsHard ==
    [][call'.op = "get_universe_symbols" =>
        LET malformed == ~IsIntLiteral(Removed(call'.universe, Nifty))
        IN /\ malformed =>
                /\ ret' = Raise("ValueError")
                /\ io' = <<>>
                /\ cache_dir' = cache_dir
           /\ (/\ ~malformed
               /\ MustFetch(call', cache_dir)
               /\ call'.response.status_code # 200) =>
                /\ ret'.kind = "raise"
                /\ cache_dir' = cache_dir
                /\ "save" \notin Ops(io')
           /\ (cache_dir' # cache_dir \/ "save" \in Ops(io')) =>
                /\ call'.response.status_code = 200
                /\ \E i, j \in 1..Len(io') :
                     i < j /\ io'[i].op = "get" /\ io'[j].op = "save"
    ]_vars

\* a 404 on nifty500 with caching enabled and other files in the cache
C20_Witness ==
    /\ call.op = "get_universe_symbols"
    /\ call.universe = Nifty \o <<"5", "0", "0">>
    /\ call.caching
    /\ call.response.status_code = 404
    /\ ret = Raise("Exception")
    /\ Ops(io) = {"load", "get"}
    /\ DOMAIN cache_dir = {Nifty \o <<"5", "0">>}

\* the malformed universe "nifnifty" + "ty5": one pass of replace leaves "nifty5"
C20_WitnessMalformed ==
    /\ call.op = "get_universe_symbols"
    /\ call.universe = <<"n", "i", "f">> \o Nifty \o <<"t", "y", "5">>
    /\ ret = Raise("ValueError")
    /\ io = <<>>

\* a list fetched and cached
C20_WitnessCached ==
    /\ call.op = "get_universe_symbols"
    /\ call.universe = Nifty \o <<"5", "_", "0">>
    /\ ret = [kind |-> "list", value |-> <<"TCS">>]
    /\ io = <<Event("load", 0, call.universe), Event("get", 50, <<>>),
              Event("save", 0, call.universe)>>

====
